---- MODULE Spec2Model ----
(***************************************************************************)
(* Model of the short-video assembly pipeline of automatisation-short-v1:  *)
(*   - the orchestrator ShortsGenerator.generate_from_article              *)
(*     (src/src/shorts_generator.py),                                      *)
(*   - the two audio-video integrators AlternativeIntegrator.integrate     *)
(*     (src/src/voice_avatar/alternative_integrator.py) and                *)
(*     VoiceVideoIntegrator.integrate                                      *)
(*     (src/src/voice_avatar/voice_video_integrator.py),                   *)
(*   - the script budgeter ShortScriptGenerator._adjust_script_length      *)
(*     (src/src/generator/script_generator.py).                            *)
(* Specification Spec is the orchestrator and the integrators; SpecScript  *)
(* is the script generator's text computation.                             *)
(***************************************************************************)
EXTENDS Integers, Sequences, FiniteSets, TLC

VARIABLES
  env,              \* what the run is given: caller, integrator class, installed tools, prior final location
  videoFile,        \* TRUE iff a file exists at video_path
  audioFile,        \* TRUE iff a file exists at audio_path
  opc,              \* position of generate_from_article
  script_data,      \* its local script_data
  video_path,       \* its local video_path
  audio_path,       \* its local audio_path
  final_path,       \* the value generate_from_article returns
  started,          \* the stages started so far, in order
  tier,             \* position of integrate
  ffmpeg_available, \* integrate's local ffmpeg_available
  visited,          \* the tiers integrate has entered so far, in order
  muxFailed,        \* TRUE iff the ffmpeg mux command of this call raised
  result,           \* the value integrate returns
  outFile,          \* what is at output_path
  dirState,         \* what is at splitext(output_path)[0]
  dirEntries,       \* the entries of that directory: <<name, content>>
  intro,            \* generate_script's local intro
  body,             \* generate_script's local body
  conclusion,       \* generate_script's local conclusion
  max_words,        \* ShortScriptGenerator.max_words
  full_script,      \* generate_script's local full_script
  spc,              \* position of generate_script
  max_duration,     \* ShortScriptGenerator.max_duration
  record,           \* the script record generate_script returns
  fps,              \* ShortVideoGenerator.fps
  calls,            \* the calls of _create_text_frames so far: segment, duration
  frames,           \* generate_video's local frames, one segment name per image
  vpc,              \* position of generate_video
  rawFile,          \* what the video writer left at the video's output_path
  ffmpegRun,        \* TRUE iff the ffmpeg optimisation command was started
  raised,           \* the exception _create_video_from_frames raised
  video_result,     \* the value generate_video returns
  article_url,      \* generate_script's local url, the record's article_url
  passOutcome,      \* how the ffmpeg optimisation command ended
  fontEnv,          \* the font files of the machine and the font_path argument
  font_path,        \* ShortVideoGenerator.font_path
  narrated,         \* the text generate_audio hands to speech synthesis
  script_arg,       \* the text a lone call of _adjust_script_length was given
  readjusted,       \* what _adjust_script_length makes of its own output
  article,          \* the article_data generate_script is given
  previous          \* the record an earlier call on the same article returned

pipeVars == <<env, videoFile, audioFile, opc, script_data, video_path, audio_path,
              final_path, started>>
intVars == <<tier, ffmpeg_available, visited, muxFailed, result>>
fsVars == <<outFile, dirState, dirEntries>>
scriptVars == <<intro, body, conclusion, max_words, full_script, spc,
                max_duration, record, article_url, script_arg, readjusted,
                article, previous>>
videoVars == <<fps, calls, frames, vpc, rawFile, ffmpegRun, raised, video_result,
               passOutcome, fontEnv, font_path, narrated>>
vars == <<pipeVars, intVars, fsVars, scriptVars, videoVars>>

----------------------------------------------------------------------------
(* The final location before the run.                                      *)

\* the four entries a previous manual bundle left
OldBundle == {<<"video.mp4", "old">>, <<"audio.mp3", "old">>,
              <<"combine.sh", "old">>, <<"README.txt", "old">>}

\* the directory contents a run may find: none, the product of running
\* combine.sh, an earlier bundle, or both
PriorEntries == {{}, {<<"combined.mp4", "old">>}, OldBundle,
                 OldBundle \cup {<<"combined.mp4", "old">>}}

PriorLocations ==
  [file : {"absent", "stale"}, dir : {"absent", "file"}, entries : {{}}]
    \cup [file : {"absent", "stale"}, dir : {"dir"}, entries : PriorEntries]

Environments ==
  \* the orchestrator always builds an AlternativeIntegrator
  [caller : {"pipeline"}, cls : {"Alternative"}, ffmpeg : BOOLEAN,
   moviepy : BOOLEAN, prior : PriorLocations]
    \cup
  \* each integrator module's main() calls integrate on paths given on the command line
  [caller : {"direct"}, cls : {"Alternative", "VoiceVideo"}, ffmpeg : BOOLEAN,
   moviepy : BOOLEAN, prior : PriorLocations]

----------------------------------------------------------------------------
(* The integrators.                                                        *)

Tiers == <<"IDLE", "TRY_EXTERNAL_MUX", "TRY_CLIP_REENCODE", "MANUAL_BUNDLE", "DONE">>

\* the place of a tier in the chain
TierRank(t) == CHOOSE i \in 1..Len(Tiers) : Tiers[i] = t

\* mutant: the presence check inverted
CheckFfmpegPresence_Inverted(installed) == IF installed THEN "False" ELSE "True"

\* subprocess.run(['ffmpeg', '-version'], check=True) inside try/except
CheckFfmpegPresence(installed) == IF installed THEN "True" ELSE "False"

\* the else-branch of "if ffmpeg_available": the manual bundle in
\* AlternativeIntegrator, the moviepy re-encode in VoiceVideoIntegrator
TierWithoutFfmpeg(cls) ==
  IF cls = "Alternative" THEN "MANUAL_BUNDLE" ELSE "TRY_CLIP_REENCODE"

\* mutant: a failed mux command is retried
TierAfterMuxError_Retry == "TRY_EXTERNAL_MUX"

\* mutant: a failed mux command falls back to the clip re-encode
TierAfterMuxError_Clip == "TRY_CLIP_REENCODE"

\* subprocess.run(..., check=True) raising lands in "except Exception: return None"
TierAfterMuxError == "DONE"

\* what a tier returns when its tool produced the merged file
MergedResult == "output_path"

\* mutant: the manual bundle returns the file path it derived the directory from
BundleResult_Path == "output_path"

\* what the manual bundle returns
BundleResult == "output_dir"

\* writing name into a directory replaces an entry of that name
Put(entries, name, content) ==
  {e \in entries : e[1] # name} \cup {<<name, content>>}

\* os.makedirs is called only when nothing exists at the path
MakeBundleDir(st) == IF st = "absent" THEN "dir" ELSE st

\* the manual bundle: makedirs, copy2 of the video, copy2 of the audio,
\* combine.sh, README.txt; the first call that raises ends it with None
BundleOutcome(st, entries, vExists, aExists) ==
  LET d == MakeBundleDir(st)
      e1 == Put(entries, "video.mp4", "video")
      e2 == Put(e1, "audio.mp3", "audio")
      e3 == Put(e2, "combine.sh", "script")
      e4 == Put(e3, "README.txt", "readme")
  IN  IF d = "file" THEN [dir |-> d, entries |-> entries, result |-> "None"]
      ELSE IF ~vExists THEN [dir |-> d, entries |-> entries, result |-> "None"]
      ELSE IF ~aExists THEN [dir |-> d, entries |-> e1, result |-> "None"]
      ELSE [dir |-> d, entries |-> e4, result |-> BundleResult]

\* integrate is entered: the presence check of ffmpeg is the first thing it does
EnterIntegrate ==
  /\ tier' = "TRY_EXTERNAL_MUX"
  /\ visited' = <<"TRY_EXTERNAL_MUX">>
  /\ UNCHANGED <<ffmpeg_available, muxFailed, result>>

\* main() of either integrator module
DirectCall ==
  /\ opc = "direct"
  /\ tier = "IDLE"
  /\ EnterIntegrate
  /\ UNCHANGED <<pipeVars, fsVars, scriptVars, videoVars>>

CheckFfmpeg ==
  /\ tier = "TRY_EXTERNAL_MUX"
  /\ ffmpeg_available = "unset"
  /\ ffmpeg_available' = CheckFfmpegPresence(env.ffmpeg)
  /\ UNCHANGED <<tier, visited, muxFailed, result, pipeVars, fsVars, scriptVars, videoVars>>

\* the outcomes of a tool that writes output_path from both inputs: it can
\* succeed only if both inputs exist, and on failure it leaves output_path
\* as it was or leaves a partial file there
ToolRun(ok, wrote) ==
  /\ ok => (videoFile /\ audioFile /\ wrote)
  /\ wrote => (videoFile /\ audioFile)
  /\ outFile' = IF ok THEN "merged" ELSE IF wrote THEN "partial" ELSE outFile
  /\ UNCHANGED <<dirState, dirEntries>>

\* ffmpeg is present: the mux command runs; when it raises, the outer
\* "except Exception" ends the call
ExternalMux ==
  /\ tier = "TRY_EXTERNAL_MUX"
  /\ ffmpeg_available = "True"
  /\ \E ok \in BOOLEAN, wrote \in BOOLEAN :
       /\ ToolRun(ok, wrote)
       /\ muxFailed' = ~ok
       /\ tier' = IF ok THEN "DONE" ELSE TierAfterMuxError
       /\ result' = IF ok THEN MergedResult
                    ELSE IF tier' = "DONE" THEN "None" ELSE result
       /\ visited' = IF tier' = "DONE" THEN visited ELSE Append(visited, tier')
  /\ UNCHANGED <<ffmpeg_available, pipeVars, scriptVars, videoVars>>

LeaveMux ==
  /\ tier = "TRY_EXTERNAL_MUX"
  /\ ffmpeg_available = "False"
  /\ tier' = TierWithoutFfmpeg(env.cls)
  /\ visited' = Append(visited, tier')
  /\ UNCHANGED <<ffmpeg_available, muxFailed, result, pipeVars, fsVars, scriptVars, videoVars>>

\* VoiceVideoIntegrator: "from moviepy.editor import ..." raising ImportError
\* returns None; otherwise the clips are loaded and written
ClipReencode ==
  /\ tier = "TRY_CLIP_REENCODE"
  /\ IF ~env.moviepy
       THEN /\ result' = "None"
            /\ UNCHANGED fsVars
       ELSE \E ok \in BOOLEAN, wrote \in BOOLEAN :
              /\ ToolRun(ok, wrote)
              /\ result' = IF ok THEN MergedResult ELSE "None"
  /\ tier' = "DONE"
  /\ UNCHANGED <<ffmpeg_available, visited, muxFailed, pipeVars, scriptVars, videoVars>>

\* AlternativeIntegrator: the manual bundle
ManualBundle ==
  /\ tier = "MANUAL_BUNDLE"
  /\ LET o == BundleOutcome(dirState, dirEntries, videoFile, audioFile)
     IN  /\ dirState' = o.dir
         /\ dirEntries' = o.entries
         /\ result' = o.result
  /\ tier' = "DONE"
  /\ UNCHANGED <<outFile, ffmpeg_available, visited, muxFailed, pipeVars, scriptVars, videoVars>>

----------------------------------------------------------------------------
(* The orchestrator: generate_from_article.                                *)

Stages == <<"script", "video", "audio", "integration">>

\* "if not script_data: return None"
AfterScript(v) == IF v = "None" THEN "done" ELSE "video"
\* mutant: the check of video_path is missing
AfterVideo_Continue(v) == "audio"

\* "if not video_path: return None"
AfterVideo(v) == IF v = "None" THEN "done" ELSE "audio"
\* "if not audio_path: return None"
AfterAudio(v) == IF v = "None" THEN "done" ELSE "integration"

\* generate_script returns a record or None; save_script may raise, which
\* the "except Exception" of generate_from_article turns into None
ScriptStage ==
  /\ opc = "script"
  /\ started' = Append(started, "script")
  /\ \E v \in {"record", "None"}, saved \in BOOLEAN :
       /\ script_data' = v
       /\ opc' = IF saved THEN AfterScript(v) ELSE "done"
       /\ final_path' = IF opc' = "done" THEN "None" ELSE final_path
  /\ UNCHANGED <<env, videoFile, audioFile, video_path, audio_path,
                 intVars, fsVars, scriptVars, videoVars>>

\* generate_video returns the path of the file it wrote, or None
VideoStage ==
  /\ opc = "video"
  /\ started' = Append(started, "video")
  /\ \E v \in {"path", "None"} :
       /\ video_path' = v
       /\ videoFile' = (v = "path")
       /\ opc' = AfterVideo(v)
       /\ final_path' = IF opc' = "done" THEN "None" ELSE final_path
  /\ UNCHANGED <<env, audioFile, script_data, audio_path, intVars, fsVars, scriptVars, videoVars>>

\* generate_audio returns the path of the file it saved, or None
AudioStage ==
  /\ opc = "audio"
  /\ started' = Append(started, "audio")
  /\ \E v \in {"path", "None"} :
       /\ audio_path' = v
       /\ audioFile' = (v = "path")
       /\ opc' = AfterAudio(v)
       /\ final_path' = IF opc' = "done" THEN "None" ELSE final_path
  /\ UNCHANGED <<env, videoFile, script_data, video_path, intVars, fsVars, scriptVars, videoVars>>

\* self.integrator.integrate(video_path, audio_path) is called
IntegrationStage ==
  /\ opc = "integration"
  /\ tier = "IDLE"
  /\ started' = Append(started, "integration")
  /\ EnterIntegrate
  /\ UNCHANGED <<env, videoFile, audioFile, opc, script_data, video_path, audio_path,
                 final_path, fsVars, scriptVars, videoVars>>

\* integrate has returned: "if not final_path: return None", else return final_path
IntegrationReturn ==
  /\ opc = "integration"
  /\ tier = "DONE"
  /\ final_path' = result
  /\ opc' = "done"
  /\ UNCHANGED <<env, videoFile, audioFile, script_data, video_path, audio_path,
                 started, intVars, fsVars, scriptVars, videoVars>>

----------------------------------------------------------------------------
(* Text: a string is a sequence of characters.                             *)

Chars == {"a", "b", " ", "\n"}
IsSpace(c) == c \in {" ", "\n"}

\* str.split(): the maximal runs of non-whitespace characters of s, in
\* order. A word starts where a non-whitespace character follows the
\* start of s or a whitespace character, and runs up to the last
\* character before the next whitespace or the end of s.
WordStarts(s) ==
  {i \in 1..Len(s) : ~IsSpace(s[i]) /\ (i = 1 \/ IsSpace(s[i - 1]))}

WordEnd(s, i) ==
  CHOOSE j \in i..Len(s) :
    /\ j = Len(s) \/ IsSpace(s[j + 1])
    /\ \A k \in i..j : ~IsSpace(s[k])

\* the members of a set of positions between lo and hi, in ascending order
RECURSIVE Ascending(_, _, _)
Ascending(positions, lo, hi) ==
  IF lo > hi THEN <<>>
  ELSE IF lo = hi THEN (IF lo \in positions THEN <<lo>> ELSE <<>>)
  ELSE LET mid == (lo + hi) \div 2
       IN  Ascending(positions, lo, mid) \o Ascending(positions, mid + 1, hi)

Split(s) ==
  LET starts == Ascending(WordStarts(s), 1, Len(s))
  IN  [k \in 1..Len(starts) |-> SubSeq(s, starts[k], WordEnd(s, starts[k]))]

\* str.split('\n\n'): the pieces between the non-overlapping occurrences
\* of the separator, found left to right; empty pieces are kept. In a run
\* of newlines the separators start at its 1st, 3rd, ... character.
SepStarts(s) ==
  {i \in 1..(Len(s) - 1) :
     /\ s[i] = "\n" /\ s[i + 1] = "\n"
     /\ Cardinality({j \in 1..(i - 1) : \A k \in j..(i - 1) : s[k] = "\n"}) % 2 = 0}

SplitBlank(s) ==
  LET seps == SepStarts(s)
      m == Cardinality(seps)
      nth(k) == CHOOSE i \in seps : Cardinality({j \in seps : j < i}) = k - 1
      first(k) == IF k = 1 THEN 1 ELSE nth(k - 1) + 2
      last(k) == IF k = m + 1 THEN Len(s) ELSE nth(k) - 1
  IN  [k \in 1..(m + 1) |-> SubSeq(s, first(k), last(k))]

\* sep.join(parts)
RECURSIVE Join(_, _)
Join(sep, parts) ==
  IF parts = <<>> THEN <<>>
  ELSE IF Len(parts) = 1 THEN parts[1]
  ELSE parts[1] \o sep \o Join(sep, Tail(parts))

\* seq[:n] for n >= 0
Take(seq, n) == SubSeq(seq, 1, IF n < Len(seq) THEN n ELSE Len(seq))

BlankLine == <<"\n", "\n">>

\* f"{intro}\n\n{body}\n\n{conclusion}"
Assemble(i, b, c) == i \o BlankLine \o b \o BlankLine \o c

\* mutant: the early return is missing, every script is rebuilt from its words
adjust_script_length_NoEarlyReturn(script, maxw) ==
  Join(<<" ">>, Take(Split(script), maxw))

\* mutant: every over-budget script is cut as one flat run of words
adjust_script_length_FlatOnly(script, maxw) ==
  IF Len(Split(script)) <= maxw THEN script
  ELSE Join(<<" ">>, Take(Split(script), maxw))

\* mutant: the body only loses its last word
adjust_script_length_DropsOneWord(script, maxw) ==
  LET words == Split(script)
      parts == SplitBlank(script)
      n == Len(parts)
      body_words == Split(Join(<<" ">>, SubSeq(parts, 2, n - 1)))
      max_body_words == maxw - Len(Split(parts[1])) - Len(Split(parts[n]))
      adjusted_body == Join(<<" ">>, Take(body_words, Len(body_words) - 1))
  IN  IF Len(words) <= maxw THEN script
      ELSE IF n >= 3 /\ max_body_words > 0
           THEN parts[1] \o BlankLine \o adjusted_body \o BlankLine \o parts[n]
           ELSE Join(<<" ">>, Take(words, maxw))

\* mutant: the body keeps its last words instead of its first
adjust_script_length_LastWords(script, maxw) ==
  LET words == Split(script)
      parts == SplitBlank(script)
      n == Len(parts)
      body_words == Split(Join(<<" ">>, SubSeq(parts, 2, n - 1)))
      max_body_words == maxw - Len(Split(parts[1])) - Len(Split(parts[n]))
      adjusted_body ==
        Join(<<" ">>, SubSeq(body_words, Len(body_words) - max_body_words + 1,
                             Len(body_words)))
  IN  IF Len(words) <= maxw THEN script
      ELSE IF n >= 3 /\ max_body_words > 0
           THEN parts[1] \o BlankLine \o adjusted_body \o BlankLine \o parts[n]
           ELSE Join(<<" ">>, Take(words, maxw))

\* mutant: the structure test is "exactly three parts"
adjust_script_length_ExactlyThree(script, maxw) ==
  LET words == Split(script)
      parts == SplitBlank(script)
      n == Len(parts)
      body_words == Split(Join(<<" ">>, SubSeq(parts, 2, n - 1)))
      max_body_words == maxw - Len(Split(parts[1])) - Len(Split(parts[n]))
      adjusted_body == Join(<<" ">>, Take(body_words, max_body_words))
  IN  IF Len(words) <= maxw THEN script
      ELSE IF n = 3 /\ max_body_words > 0
           THEN parts[1] \o BlankLine \o adjusted_body \o BlankLine \o parts[n]
           ELSE Join(<<" ">>, Take(words, maxw))

\* mutant: a body budget of zero still takes the three-part branch
adjust_script_length_ZeroBudget(script, maxw) ==
  LET words == Split(script)
      parts == SplitBlank(script)
      n == Len(parts)
      body_words == Split(Join(<<" ">>, SubSeq(parts, 2, n - 1)))
      max_body_words == maxw - Len(Split(parts[1])) - Len(Split(parts[n]))
      adjusted_body == Join(<<" ">>, Take(body_words, max_body_words))
  IN  IF Len(words) <= maxw THEN script
      ELSE IF n >= 3 /\ max_body_words >= 0
           THEN parts[1] \o BlankLine \o adjusted_body \o BlankLine \o parts[n]
           ELSE Join(<<" ">>, Take(words, maxw))

\* _adjust_script_length
adjust_script_length(script, maxw) ==
  LET words == Split(script)
      parts == SplitBlank(script)
      n == Len(parts)
      body_words == Split(Join(<<" ">>, SubSeq(parts, 2, n - 1)))
      max_body_words == maxw - Len(Split(parts[1])) - Len(Split(parts[n]))
      adjusted_body == Join(<<" ">>, Take(body_words, max_body_words))
  IN  IF Len(words) <= maxw THEN script
      ELSE IF n >= 3 /\ max_body_words > 0
           THEN parts[1] \o BlankLine \o adjusted_body \o BlankLine \o parts[n]
           ELSE Join(<<" ">>, Take(words, maxw))

Min(a, b) == IF a <= b THEN a ELSE b

\* mutant: the quotient is rounded up
estimate_duration_RoundUp(script, maxd) ==
  Min((2 * Len(Split(script)) + 4) \div 5, maxd)

\* _estimate_duration: int(word_count / 2.5), at most max_duration
estimate_duration(script, maxd) ==
  LET word_count == Len(Split(script))
  IN  Min((2 * word_count) \div 5, maxd)

\* mutant: the words are counted before the length adjustment
script_record_StaleCount(i, b, c, fs, maxd) ==
  [intro |-> i, body |-> b, conclusion |-> c, full_script |-> fs,
   word_count |-> Len(Split(Assemble(i, b, c))),
   estimated_duration |-> estimate_duration(fs, maxd)]

\* the record generate_script returns (title, author and article_url are
\* copied from the article and left out)
script_record(i, b, c, fs, maxd) ==
  [intro |-> i, body |-> b, conclusion |-> c, full_script |-> fs,
   word_count |-> Len(Split(fs)),
   estimated_duration |-> estimate_duration(fs, maxd)]

\* no record yet
NoRecord ==
  [intro |-> <<>>, body |-> <<>>, conclusion |-> <<>>, full_script |-> <<>>,
   word_count |-> 0, estimated_duration |-> 0]

\* the strings of at most n characters
Texts(n) == UNION {[1..k -> Chars] : k \in 0..n}

MaxBodyLen == 5
MaxWordsBound == 4

\* sample introductions and conclusions: one word, and two words
Intros == {<<"a">>, <<"a", " ", "b">>}
Conclusions == {<<"b">>, <<"b", " ", "a">>}

\* generate_script assembles the full script from its three parts
AssembleScript ==
  /\ spc = "start"
  /\ full_script' = Assemble(intro, body, conclusion)
  /\ spc' = "assembled"
  /\ UNCHANGED <<intro, body, conclusion, max_words, max_duration, record,
                 article_url, script_arg, readjusted, article, previous, pipeVars, intVars, fsVars, videoVars>>

\* generate_script adjusts the length of the full script
AdjustLength ==
  /\ spc = "assembled"
  /\ full_script' = adjust_script_length(full_script, max_words)
  /\ spc' = "adjusted"
  /\ UNCHANGED <<intro, body, conclusion, max_words, max_duration, record,
                 article_url, script_arg, readjusted, article, previous, pipeVars, intVars, fsVars, videoVars>>

\* generate_script builds the record it returns
BuildRecord ==
  /\ spc = "adjusted"
  /\ record' = script_record(intro, body, conclusion, full_script, max_duration)
  /\ spc' = "recorded"
  /\ UNCHANGED <<intro, body, conclusion, max_words, full_script, max_duration,
                 article_url, script_arg, readjusted, article, previous, pipeVars, intVars, fsVars, videoVars>>

\* a key of article_data: absent, present with null, or present with a value
Missing == [state |-> "missing", value |-> <<>>]
Null == [state |-> "null", value |-> <<>>]
Present(v) == [state |-> "present", value |-> v]

\* dict.get(key, default): the default only when the key is absent; None
\* when the key holds null
Get(field, default) ==
  IF field.state = "missing" THEN [none |-> FALSE, val |-> default]
  ELSE IF field.state = "null" THEN [none |-> TRUE, val |-> <<>>]
  ELSE [none |-> FALSE, val |-> field.value]

\* no article
NoArticle ==
  [title |-> Missing, author |-> Missing, summary |-> Missing,
   content |-> Missing, url |-> Missing]

\* ShortsGenerator.__init__: ShortScriptGenerator(max_duration=60, max_words=150)
DefaultMaxDuration == 60
DefaultMaxWords == 150

\* a machine with the DejaVu font installed, and no font_path argument
StandardFonts ==
  [configured |-> "none", conventional |-> TRUE,
   dirs |-> <<"nested", "nested", "absent">>]

\* no video is being generated
VideoIdle ==
  /\ fps = 0 /\ calls = <<>> /\ frames = <<>> /\ vpc = "idle"
  /\ rawFile = "absent" /\ ffmpegRun = FALSE /\ raised = "none"
  /\ video_result = "unset"
  /\ passOutcome = "not_run" /\ fontEnv = StandardFonts
  /\ font_path = "unset" /\ narrated = <<>>

\* no pipeline is running
PipelineIdle ==
  /\ env = [caller |-> "none", cls |-> "Alternative", ffmpeg |-> FALSE,
            moviepy |-> FALSE,
            prior |-> [file |-> "absent", dir |-> "absent", entries |-> {}]]
  /\ videoFile = FALSE /\ audioFile = FALSE /\ opc = "idle"
  /\ script_data = "unset" /\ video_path = "unset" /\ audio_path = "unset"
  /\ final_path = "unset" /\ started = <<>>
  /\ tier = "IDLE" /\ ffmpeg_available = "unset" /\ visited = <<>>
  /\ muxFailed = FALSE /\ result = "unset"
  /\ outFile = "absent" /\ dirState = "absent" /\ dirEntries = {}

InitScript ==
  /\ PipelineIdle
  /\ intro \in Intros
  /\ body \in Texts(MaxBodyLen)
  /\ conclusion \in Conclusions
  /\ max_words \in 0..MaxWordsBound
  /\ max_duration = DefaultMaxDuration
  /\ full_script = <<>>
  /\ record = NoRecord
  /\ article_url = <<>>
  /\ script_arg = <<>> /\ readjusted = <<>> /\ article = NoArticle
  /\ previous = NoRecord
  /\ spc = "start"
  /\ VideoIdle

NextScript ==
  \/ AssembleScript
  \/ AdjustLength
  \/ BuildRecord

SpecScript == InitScript /\ [][NextScript]_vars

\* no script is being generated
ScriptIdle ==
  /\ intro = <<>> /\ body = <<>> /\ conclusion = <<>>
  /\ max_words = 0 /\ full_script = <<>> /\ spc = "idle"
  /\ max_duration = 0 /\ record = NoRecord /\ article_url = <<>>
  /\ script_arg = <<>> /\ readjusted = <<>> /\ article = NoArticle
  /\ previous = NoRecord

\* _adjust_script_length is applied to the text an earlier call returned
Readjust ==
  /\ spc = "adjusted"
  /\ readjusted' = adjust_script_length(full_script, max_words)
  /\ spc' = "readjusted"
  /\ UNCHANGED <<intro, body, conclusion, max_words, full_script, max_duration,
                 record, article_url, script_arg, article, previous, pipeVars,
                 intVars, fsVars, videoVars>>

\* the texts _adjust_script_length is tried on: every short text, and the
\* three-part texts generate_script joins, also with an empty intro
BudgeterInputs ==
  Texts(MaxBodyLen) \cup
    {Assemble(i, b, c) : i \in Intros \cup {<<>>}, b \in Texts(MaxBodyLen),
                         c \in Conclusions}

\* _adjust_script_length is called on its own
InitBudgeter ==
  /\ PipelineIdle
  /\ VideoIdle
  /\ intro = <<>> /\ body = <<>> /\ conclusion = <<>>
  /\ max_words \in 0..MaxWordsBound
  /\ max_duration = DefaultMaxDuration
  /\ script_arg \in BudgeterInputs
  /\ full_script = script_arg
  /\ record = NoRecord
  /\ article_url = <<>>
  /\ readjusted = <<>>
  /\ article = NoArticle
  /\ previous = NoRecord
  /\ spc = "assembled"

NextBudgeter ==
  \/ AdjustLength
  \/ Readjust

SpecBudgeter == InitBudgeter /\ [][NextBudgeter]_vars

\* a text of k words
Run(k) == [i \in 1..(2 * k - 1) |-> IF i % 2 = 1 THEN "a" ELSE " "]

MaxRunWords == 38
MaxDurationBound == 16

\* generate_script has adjusted a script of 2..MaxRunWords+2 words that is
\* within the word budget of the orchestrator's generator
InitDuration ==
  /\ PipelineIdle
  /\ VideoIdle
  /\ intro = <<"a">>
  /\ body \in {Run(k) : k \in 0..MaxRunWords}
  /\ conclusion = <<"b">>
  /\ max_words = DefaultMaxWords
  /\ max_duration \in 0..MaxDurationBound
  /\ full_script = adjust_script_length(Assemble(intro, body, conclusion), max_words)
  /\ record = NoRecord
  /\ article_url = <<>>
  /\ script_arg = <<>> /\ readjusted = <<>> /\ article = NoArticle
  /\ previous = NoRecord
  /\ spc = "adjusted"

NextDuration == BuildRecord

SpecDuration == InitDuration /\ [][NextDuration]_vars

----------------------------------------------------------------------------
(* The article and ShortScriptGenerator._generate_body                     *)

\* the string of n characters c
Str(c, n) == [i \in 1..n |-> c]

\* str.upper() on the section types that occur
Upper(t) ==
  CASE t = "h3" -> "H3"
    [] t = "p" -> "P"
    [] OTHER -> t

\* str.strip(): s without its leading and trailing whitespace
Strip(s) ==
  IF \A i \in 1..Len(s) : IsSpace(s[i]) THEN <<>>
  ELSE SubSeq(s,
              CHOOSE i \in 1..Len(s) :
                ~IsSpace(s[i]) /\ \A j \in 1..(i - 1) : IsSpace(s[j]),
              CHOOSE i \in 1..Len(s) :
                ~IsSpace(s[i]) /\ \A j \in (i + 1)..Len(s) : IsSpace(s[j]))

\* _generate_body: "Voici ce que vous devez retenir : "
BodyPrefix ==
  <<"V", "o", "i", "c", "i", " ", "c", "e", " ", "q", "u", "e", " ", "v",
    "o", "u", "s", " ", "d", "e", "v", "e", "z", " ", "r", "e", "t", "e",
    "n", "i", "r", " ", ":", " ">>

\* _generate_body: the sentence returned when the content gives nothing
\* (accents left out)
GenericBody ==
  <<"C", "e", "t", " ", "a", "r", "t", "i", "c", "l", "e", " ", "c", "o",
    "n", "t", "i", "e", "n", "t", " ", "d", "e", "s", " ", "i", "n", "f",
    "o", "r", "m", "a", "t", "i", "o", "n", "s", " ", "i", "n", "t", "e",
    "r", "e", "s", "s", "a", "n", "t", "e", "s", " ", "q", "u", "e", " ",
    "v", "o", "u", "s", " ", "p", "o", "u", "r", "r", "e", "z", " ", "d",
    "e", "c", "o", "u", "v", "r", "i", "r", " ", "e", "n", " ", "l", "i",
    "s", "a", "n", "t", " ", "l", "'", "a", "r", "t", "i", "c", "l", "e",
    " ", "c", "o", "m", "p", "l", "e", "t", ".">>

\* mutant: a paragraph of any length is a key point
is_key_point_AnyParagraph(section_type, section_text) ==
  \/ section_type \in {"H1", "H2", "H3", "H4"} /\ section_text # <<>>
  \/ section_type = "P"

\* _generate_body: the test of the first loop
is_key_point(section_type, section_text) ==
  \/ section_type \in {"H1", "H2", "H3", "H4"} /\ section_text # <<>>
  \/ section_type = "P" /\ 20 <= Len(section_text) /\ Len(section_text) <= 200

\* _generate_body: the first loop, from section i on, key_points being kp
RECURSIVE key_points_from(_, _, _)
key_points_from(content, i, kp) ==
  IF i > Len(content) THEN kp
  ELSE LET section_type == Upper(content[i].type)
           section_text == content[i].text
           added == IF is_key_point(section_type, section_text)
                      THEN Append(kp, section_text) ELSE kp
       IN  IF Len(added) >= 3 THEN added
           ELSE key_points_from(content, i + 1, added)

\* _generate_body: the second loop, over the non-empty paragraphs
RECURSIVE first_paragraphs_from(_, _, _)
first_paragraphs_from(content, i, kp) ==
  IF i > Len(content) THEN kp
  ELSE IF Upper(content[i].type) = "P" /\ content[i].text # <<>>
    THEN LET added == Append(kp, content[i].text)
         IN  IF Len(added) >= 2 THEN added
             ELSE first_paragraphs_from(content, i + 1, added)
    ELSE first_paragraphs_from(content, i + 1, kp)

\* mutant: a long point is cut to 100 characters before the ellipsis
clip_point_Hundred(point) ==
  IF Len(point) > 100 THEN SubSeq(point, 1, 100) \o <<".", ".", ".">> ELSE point

\* _generate_body: point[:97] + "..." for a point of more than 100 characters
clip_point(point) ==
  IF Len(point) > 100 THEN SubSeq(point, 1, 97) \o <<".", ".", ".">> ELSE point

\* _generate_body: body += f"{point} " for every key point
RECURSIVE append_points(_, _, _)
append_points(b, key_points, i) ==
  IF i > Len(key_points) THEN b
  ELSE append_points(b \o clip_point(key_points[i]) \o <<" ">>, key_points, i + 1)

\* _generate_body; content and summary are what dict.get returned. The
\* result is the body, or raised when content is None and must be iterated
generate_body(content, summary) ==
  IF ~summary.none /\ summary.val # <<>> /\ Len(summary.val) > 20
    THEN [raised |-> FALSE, val |-> summary.val]
  ELSE IF content.none THEN [raised |-> TRUE, val |-> <<>>]
  ELSE LET found == key_points_from(content.val, 1, <<>>)
           key_points == IF found = <<>>
                           THEN first_paragraphs_from(content.val, 1, <<>>)
                           ELSE found
       IN  IF key_points # <<>>
             THEN [raised |-> FALSE,
                   val |-> Strip(append_points(BodyPrefix, key_points, 1))]
             ELSE [raised |-> FALSE, val |-> GenericBody]

\* the content blocks tried: headings and paragraphs around the limits of
\* the selection, one type in lower case, and a block of another type
Sections ==
  {[type |-> "H2", text |-> <<>>],
   [type |-> "h3", text |-> Str("h", 5)],
   [type |-> "H1", text |-> Str("g", 101)],
   [type |-> "P", text |-> <<>>],
   [type |-> "P", text |-> Str("r", 19)],
   [type |-> "p", text |-> Str("p", 20)],
   [type |-> "P", text |-> Str("q", 200)],
   [type |-> "P", text |-> Str("s", 201)],
   [type |-> "LI", text |-> Str("l", 30)]}

MaxSections == 4

Contents == UNION {[1..n -> Sections] : n \in 0..MaxSections}

\* generate_script calls _generate_body
GenerateBody ==
  /\ spc = "body"
  /\ LET made == generate_body(Get(article.content, <<>>), Get(article.summary, <<>>))
     IN  /\ body' = made.val
         /\ spc' = IF made.raised THEN "failed" ELSE "body_made"
  /\ UNCHANGED <<intro, conclusion, max_words, full_script, max_duration,
                 record, article_url, script_arg, readjusted, article, previous,
                 pipeVars, intVars, fsVars, videoVars>>

\* _generate_body is called for an article without summary and any
\* content, or with a summary of 20 or of 21 characters
InitBody ==
  /\ PipelineIdle
  /\ VideoIdle
  /\ \E c \in Contents, sm \in {Missing, Present(Str("m", 20)), Present(Str("n", 21))} :
       /\ sm # Missing => Len(c) <= 1
       /\ article = [title |-> Present(<<"t">>), author |-> Missing, summary |-> sm,
                     content |-> Present(c), url |-> Present(<<"u">>)]
  /\ intro = <<>> /\ body = <<>> /\ conclusion = <<>>
  /\ max_words = DefaultMaxWords
  /\ max_duration = DefaultMaxDuration
  /\ full_script = <<>>
  /\ record = NoRecord
  /\ article_url = <<>>
  /\ script_arg = <<>> /\ readjusted = <<>>
  /\ previous = NoRecord
  /\ spc = "body"

NextBody == GenerateBody

SpecBody == InitBody /\ [][NextBody]_vars

----------------------------------------------------------------------------
(* ShortScriptGenerator.generate_script on an article                      *)

\* generate_script: the default title
SansTitre ==
  <<"S", "a", "n", "s", " ", "t", "i", "t", "r", "e">>

\* generate_script: the default author
AuteurInconnu ==
  <<"A", "u", "t", "e", "u", "r", " ", "i", "n", "c", "o", "n", "n", "u">>

\* str(None), as an f-string formats it
NoneText ==
  <<"N", "o", "n", "e">>

\* _generate_intro: template 1 up to the title (accents left out)
IntroBefore1 ==
  <<"B", "o", "n", "j", "o", "u", "r", " ", "a", " ", "t", "o", "u", "s",
    " ", "!", " ", "A", "u", "j", "o", "u", "r", "d", "'", "h", "u", "i",
    ",", " ", "j", "e", " ", "v", "o", "u", "s", " ", "p", "r", "e", "s",
    "e", "n", "t", "e", " ", "u", "n", " ", "a", "r", "t", "i", "c", "l",
    "e", " ", "i", "n", "t", "e", "r", "e", "s", "s", "a", "n", "t", " ",
    "i", "n", "t", "i", "t", "u", "l", "e", " ", "\"">>

\* _generate_intro: template 1 after the title
IntroAfter1 ==
  <<"\"", ".">>

\* _generate_intro: template 2 up to the title (accents left out)
IntroBefore2 ==
  <<"S", "a", "l", "u", "t", " ", "!", " ", "J", "e", " ", "v", "a", "i",
    "s", " ", "v", "o", "u", "s", " ", "p", "a", "r", "l", "e", "r", " ",
    "d", "e", " ", "\"">>

\* _generate_intro: template 2 after the title
IntroAfter2 ==
  <<"\"", ",", " ", "u", "n", " ", "a", "r", "t", "i", "c", "l", "e", " ",
    "q", "u", "i", " ", "m", "e", "r", "i", "t", "e", " ", "v", "o", "t",
    "r", "e", " ", "a", "t", "t", "e", "n", "t", "i", "o", "n", ".">>

\* _generate_intro: template 3 up to the title (accents left out)
IntroBefore3 ==
  <<"B", "i", "e", "n", "v", "e", "n", "u", "e", " ", "!", " ", "D", "a",
    "n", "s", " ", "c", "e", "t", "t", "e", " ", "v", "i", "d", "e", "o",
    ",", " ", "j", "e", " ", "v", "a", "i", "s", " ", "v", "o", "u", "s",
    " ", "r", "e", "s", "u", "m", "e", "r", " ", "l", "'", "a", "r", "t",
    "i", "c", "l", "e", " ", "\"">>

\* _generate_intro: template 3 after the title
IntroAfter3 ==
  <<"\"", ".">>

\* _generate_intro: the author sentence up to the author
AuthorBefore ==
  <<" ", "C", "e", "t", " ", "a", "r", "t", "i", "c", "l", "e", " ", "a",
    " ", "e", "t", "e", " ", "e", "c", "r", "i", "t", " ", "p", "a", "r",
    " ">>

\* _generate_intro: the author sentence after the author
AuthorAfter ==
  <<".">>

\* _generate_conclusion: template 1 up to the title
ConclusionBefore1 ==
  <<"P", "o", "u", "r", " ", "e", "n", " ", "s", "a", "v", "o", "i", "r",
    " ", "p", "l", "u", "s", " ", "s", "u", "r", " ", "\"">>

\* _generate_conclusion: template 1 after the title
ConclusionAfter1 ==
  <<"\"", ",", " ", "c", "o", "n", "s", "u", "l", "t", "e", "z", " ", "l",
    "e", " ", "l", "i", "e", "n", " ", "d", "a", "n", "s", " ", "l", "a",
    " ", "d", "e", "s", "c", "r", "i", "p", "t", "i", "o", "n", ".">>

\* _generate_conclusion: template 2
Conclusion2 ==
  <<"S", "i", " ", "c", "e", " ", "s", "u", "j", "e", "t", " ", "v", "o",
    "u", "s", " ", "i", "n", "t", "e", "r", "e", "s", "s", "e", ",", " ",
    "j", "e", " ", "v", "o", "u", "s", " ", "i", "n", "v", "i", "t", "e",
    " ", "a", " ", "l", "i", "r", "e", " ", "l", "'", "a", "r", "t", "i",
    "c", "l", "e", " ", "c", "o", "m", "p", "l", "e", "t", ".", " ", "L",
    "e", " ", "l", "i", "e", "n", " ", "e", "s", "t", " ", "d", "a", "n",
    "s", " ", "l", "a", " ", "d", "e", "s", "c", "r", "i", "p", "t", "i",
    "o", "n", ".">>

\* _generate_conclusion: template 3
Conclusion3 ==
  <<"P", "o", "u", "r", " ", "u", "n", " ", "t", "u", "t", "o", "r", "i",
    "e", "l", " ", "d", "e", "t", "a", "i", "l", "l", "e", ",", " ", "c",
    "l", "i", "q", "u", "e", "z", " ", "s", "u", "r", " ", "l", "e", " ",
    "l", "i", "e", "n", " ", "d", "a", "n", "s", " ", "l", "a", " ", "d",
    "e", "s", "c", "r", "i", "p", "t", "i", "o", "n", " ", "p", "o", "u",
    "r", " ", "a", "c", "c", "e", "d", "e", "r", " ", "a", " ", "l", "'",
    "a", "r", "t", "i", "c", "l", "e", " ", "c", "o", "m", "p", "l", "e",
    "t", ".">>

\* _generate_conclusion: engagement phrase 1
Engagement1 ==
  <<"N", "'", "o", "u", "b", "l", "i", "e", "z", " ", "p", "a", "s", " ",
    "d", "e", " ", "l", "i", "k", "e", "r", " ", "e", "t", " ", "d", "e",
    " ", "v", "o", "u", "s", " ", "a", "b", "o", "n", "n", "e", "r", " ",
    "p", "o", "u", "r", " ", "p", "l", "u", "s", " ", "d", "e", " ", "c",
    "o", "n", "t", "e", "n", "u", "s", " ", "c", "o", "m", "m", "e", " ",
    "c", "e", "l", "u", "i", "-", "c", "i", " ", "!">>

\* _generate_conclusion: engagement phrase 2
Engagement2 ==
  <<"S", "i", " ", "c", "e", "t", "t", "e", " ", "v", "i", "d", "e", "o",
    " ", "v", "o", "u", "s", " ", "a", " ", "p", "l", "u", ",", " ", "n",
    "'", "h", "e", "s", "i", "t", "e", "z", " ", "p", "a", "s", " ", "a",
    " ", "l", "a", " ", "p", "a", "r", "t", "a", "g", "e", "r", " ", "e",
    "t", " ", "a", " ", "v", "o", "u", "s", " ", "a", "b", "o", "n", "n",
    "e", "r", " ", "!">>

\* _generate_conclusion: engagement phrase 3
Engagement3 ==
  <<"M", "e", "r", "c", "i", " ", "d", "'", "a", "v", "o", "i", "r", " ",
    "r", "e", "g", "a", "r", "d", "e", " ", "!", " ", "A", "b", "o", "n",
    "n", "e", "z", "-", "v", "o", "u", "s", " ", "p", "o", "u", "r", " ",
    "n", "e", " ", "m", "a", "n", "q", "u", "e", "r", " ", "a", "u", "c",
    "u", "n", " ", "d", "e", " ", "m", "e", "s", " ", "p", "r", "o", "c",
    "h", "a", "i", "n", "s", " ", "s", "h", "o", "r", "t", "s", " ", "!">>

\* an f-string formats None as "None"
Format(v) == IF v.none THEN NoneText ELSE v.val

\* the value is true in a condition: neither None nor empty
Truthy(v) == ~v.none /\ v.val # <<>>

\* random.choice over three templates
Choices == 1..3

\* _generate_intro, template being what random.choice picked
generate_intro(title, author, template) ==
  LET chosen ==
        CASE template = 1 -> IntroBefore1 \o Format(title) \o IntroAfter1
          [] template = 2 -> IntroBefore2 \o Format(title) \o IntroAfter2
          [] OTHER -> IntroBefore3 \o Format(title) \o IntroAfter3
  IN  IF Truthy(author) /\ author.val # AuteurInconnu
        THEN chosen \o AuthorBefore \o Format(author) \o AuthorAfter
        ELSE chosen

\* _generate_conclusion, template and phrase being what random.choice picked
generate_conclusion(title, url, template, phrase) ==
  LET chosen ==
        CASE template = 1 -> ConclusionBefore1 \o Format(title) \o ConclusionAfter1
          [] template = 2 -> Conclusion2
          [] OTHER -> Conclusion3
      engagement ==
        CASE phrase = 1 -> Engagement1
          [] phrase = 2 -> Engagement2
          [] OTHER -> Engagement3
  IN  chosen \o <<" ">> \o engagement

\* generate_script: content = article_data.get('content', [])
content_of(a) == Get(a.content, <<>>)

\* generate_script as a whole, with the three random choices: it returns a
\* record, or None when _generate_body raised
Generate(ti, tc, pc) ==
  LET title == Get(article.title, SansTitre)
      author == Get(article.author, AuteurInconnu)
      summary == Get(article.summary, <<>>)
      content == content_of(article)
      url == Get(article.url, <<>>)
      made_intro == generate_intro(title, author, ti)
      made == generate_body(content, summary)
      made_conclusion == generate_conclusion(title, url, tc, pc)
      adjusted == adjust_script_length(Assemble(made_intro, made.val, made_conclusion),
                                       max_words)
  IN  /\ intro' = made_intro
      /\ IF made.raised
           THEN /\ record' = NoRecord
                /\ spc' = "failed"
                /\ UNCHANGED <<body, conclusion, full_script, article_url>>
           ELSE /\ body' = made.val
                /\ conclusion' = made_conclusion
                /\ full_script' = adjusted
                /\ article_url' = url.val
                /\ record' = script_record(made_intro, made.val, made_conclusion,
                                           adjusted, max_duration)
                /\ spc' = "recorded"

\* generate_script is called on the article
GenerateScript ==
  /\ spc = "article"
  /\ \E ti \in Choices, tc \in Choices, pc \in Choices : Generate(ti, tc, pc)
  /\ UNCHANGED <<max_words, max_duration, script_arg, readjusted, article, previous,
                 pipeVars, intVars, fsVars, videoVars>>

\* generate_script is called a second time on the same article
GenerateScriptAgain ==
  /\ spc = "recorded"
  /\ previous = NoRecord
  /\ previous' = record
  /\ \E ti \in Choices, tc \in Choices, pc \in Choices : Generate(ti, tc, pc)
  /\ UNCHANGED <<max_words, max_duration, script_arg, readjusted, article,
                 pipeVars, intVars, fsVars, videoVars>>

\* the values tried for a text field and for the content of an article
TextFields(v) == {Missing, Null, Present(v)}
ContentFields ==
  {Missing, Null, Present(<< [type |-> "P", text |-> Str("p", 20)] >>)}

\* articles with every combination of absent, null and given fields
Articles ==
  [title : TextFields(<<"t">>), author : TextFields(<<"x">>),
   summary : TextFields(Str("n", 21)), content : ContentFields,
   url : TextFields(<<"u">>)]

\* the orchestrator's script generator is given an article
InitArticle ==
  /\ PipelineIdle
  /\ VideoIdle
  /\ article \in Articles
  /\ intro = <<>> /\ body = <<>> /\ conclusion = <<>>
  /\ max_words = DefaultMaxWords
  /\ max_duration = DefaultMaxDuration
  /\ full_script = <<>>
  /\ record = NoRecord
  /\ previous = NoRecord
  /\ article_url = <<>>
  /\ script_arg = <<>> /\ readjusted = <<>>
  /\ spc = "article"

NextArticle == GenerateScript

SpecArticle == InitArticle /\ [][NextArticle]_vars

\* the articles a second run is tried on: complete, and without author and
\* summary
RepeatArticles ==
  {a \in Articles :
     /\ a.title.state = "present" /\ a.content.state = "present"
     /\ a.url.state = "present"
     /\ a.author.state # "null" /\ a.summary.state # "null"}

\* generate_script is given an article, and later the same article again
InitRepeat ==
  /\ PipelineIdle
  /\ VideoIdle
  /\ article \in RepeatArticles
  /\ intro = <<>> /\ body = <<>> /\ conclusion = <<>>
  /\ max_words = DefaultMaxWords
  /\ max_duration = DefaultMaxDuration
  /\ full_script = <<>>
  /\ record = NoRecord
  /\ previous = NoRecord
  /\ article_url = <<>>
  /\ script_arg = <<>> /\ readjusted = <<>>
  /\ spc = "article"

NextRepeat ==
  \/ GenerateScript
  \/ GenerateScriptAgain

SpecRepeat == InitRepeat /\ [][NextRepeat]_vars

----------------------------------------------------------------------------
(* ShortVideoGenerator.generate_video                                      *)

\* generate_video: the seconds of the intro and of the conclusion segment
IntroDuration == 5
ConclusionDuration == 5
\* generate_video: what it takes off estimated_duration for the body
IntroAndConclusion == 10

\* mutant: the body duration is floored at one second
body_duration_Floored(rec) ==
  IF rec.estimated_duration - IntroAndConclusion >= 1
    THEN rec.estimated_duration - IntroAndConclusion ELSE 1

\* generate_video: the duration of the body segment (a record of
\* generate_script always has estimated_duration, so the default 30 of
\* .get is never taken)
body_duration(rec) == rec.estimated_duration - IntroAndConclusion

\* mutant: one image more than duration * fps
create_text_frames_OneMore(segment, duration, f) ==
  LET num_frames == duration * f + 1
  IN  IF num_frames > 0 THEN [i \in 1..num_frames |-> segment] ELSE <<>>

\* _create_text_frames: [img_array] * num_frames, the empty list when
\* num_frames <= 0; the durations generate_video passes are integers
create_text_frames(segment, duration, f) ==
  LET num_frames == duration * f
  IN  IF num_frames > 0 THEN [i \in 1..num_frames |-> segment] ELSE <<>>

\* mutant: no check for an empty list
frames_missing_Unchecked(fr) == FALSE

\* _create_video_from_frames: `if not frames`
frames_missing(fr) == fr = <<>>

\* the font_path argument ("none": not given) and the font files of the
\* machine: whether the DejaVu file exists, and for each of the three
\* font directories whether it is absent, holds no font, holds a font
\* file at its top level, or holds fonts only in subdirectories.
\* /usr/share/fonts/truetype, the first, lies inside /usr/share/fonts, the
\* second, and the DejaVu file lies inside the first.
FontEnvironments ==
  {e \in [configured : {"none", "missing", "present"},
          conventional : BOOLEAN,
          dirs : [1..3 -> {"absent", "empty", "top", "nested"}]] :
     /\ e.conventional => e.dirs[1] \in {"top", "nested"}
     /\ e.dirs[1] # "absent" => e.dirs[2] # "absent"
     /\ e.dirs[1] \in {"top", "nested"} => e.dirs[2] \in {"top", "nested"}}

\* os.walk(font_dir): for each directory it yields, top first, whether its
\* files include a .ttf or .otf file
walk(dir) ==
  CASE dir = "empty" -> <<FALSE>>
    [] dir = "top" -> <<TRUE>>
    [] dir = "nested" -> <<FALSE, TRUE>>
    [] OTHER -> <<>>

\* __init__: hasattr(self, 'font_path'); the attribute was assigned just
\* before the scan
has_font_path == TRUE

\* __init__: the loop over os.walk(font_dir)
RECURSIVE scan_walk(_, _, _)
scan_walk(roots, j, fp) ==
  IF j > Len(roots) THEN fp
  ELSE LET found == IF roots[j] THEN "scanned" ELSE fp
       IN  IF has_font_path THEN found ELSE scan_walk(roots, j + 1, found)

\* __init__: the loop over font_dirs
RECURSIVE scan_dirs(_, _, _)
scan_dirs(dirs, i, fp) ==
  IF i > Len(dirs) THEN fp
  ELSE LET found == IF dirs[i] # "absent" THEN scan_walk(walk(dirs[i]), 1, fp)
                    ELSE fp
       IN  IF has_font_path THEN found ELSE scan_dirs(dirs, i + 1, found)

\* __init__: the font path it settles on
resolve_font(e) ==
  IF e.configured = "present" THEN "configured"
  ELSE IF e.conventional THEN "conventional"
  ELSE scan_dirs(e.dirs, 1, "conventional")

\* _create_text_frames: ImageFont.truetype(self.font_path), and
\* ImageFont.load_default() when it raises
loaded_font(fp, e) ==
  IF \/ fp = "configured" /\ e.configured = "present"
     \/ fp = "conventional" /\ e.conventional
     \/ fp = "scanned"
    THEN fp ELSE "builtin"

\* mutant: the caption is drawn for every url
caption_drawn_AnyUrl(include_url, url) == include_url

\* _create_text_frames: `if include_url and url`
caption_drawn(include_url, url) == include_url /\ url # <<>>

\* mutant: ffmpeg writes over output_path
file_after_pass_InPlace(outcome, file) ==
  IF outcome = "ok" THEN "compressed" ELSE "partial"

\* _create_video_from_frames: ffmpeg writes temp_output, which replaces
\* output_path only after the command succeeded
file_after_pass(outcome, file) ==
  IF outcome = "ok" THEN "compressed" ELSE file

\* mutant: the narration is assembled from the sections
narration_text_Sections(rec) == Assemble(rec.intro, rec.body, rec.conclusion)

\* generate_audio: the text handed to gTTS
narration_text(rec) ==
  IF rec.full_script # <<>> THEN rec.full_script
  ELSE Assemble(rec.intro, rec.body, rec.conclusion)

\* ShortVideoGenerator.__init__ settles the font path
ResolveFont ==
  /\ vpc = "init"
  /\ font_path' = resolve_font(fontEnv)
  /\ vpc' = "intro"
  /\ UNCHANGED <<fps, calls, frames, rawFile, ffmpegRun, raised, video_result,
                 passOutcome, fontEnv, narrated,
                 pipeVars, intVars, fsVars, scriptVars>>

\* generate_video calls _create_text_frames for one segment and extends
\* frames with what it returns
Render(segment, text, duration, include_url, next) ==
  /\ vpc = segment
  /\ LET returned == create_text_frames(segment, duration, fps)
     IN  /\ calls' = Append(calls, [segment |-> segment, text |-> text,
                                    duration |-> duration,
                                    font |-> loaded_font(font_path, fontEnv),
                                    caption |-> caption_drawn(include_url, article_url),
                                    returned |-> Len(returned)])
         /\ frames' = frames \o returned
  /\ vpc' = next
  /\ UNCHANGED <<fps, rawFile, ffmpegRun, raised, video_result,
                 passOutcome, fontEnv, font_path, narrated,
                 pipeVars, intVars, fsVars, scriptVars>>

RenderIntro == Render("intro", record.intro, IntroDuration, FALSE, "body")
RenderBody == Render("body", record.body, body_duration(record), FALSE, "conclusion")
RenderConclusion ==
  Render("conclusion", record.conclusion, ConclusionDuration, TRUE, "write")

\* _create_video_from_frames up to video.release(): raises on an empty
\* list, and generate_video then returns None; otherwise the writer
\* leaves the raw file at output_path
WriteRaw ==
  /\ vpc = "write"
  /\ IF frames_missing(frames)
       THEN /\ raised' = "ValueError"
            /\ video_result' = "None"
            /\ vpc' = "returned"
            /\ UNCHANGED rawFile
       ELSE /\ rawFile' = "raw"
            /\ vpc' = "optimise"
            /\ UNCHANGED <<raised, video_result>>
  /\ UNCHANGED <<fps, calls, frames, ffmpegRun, passOutcome, fontEnv, font_path,
                 narrated, pipeVars, intVars, fsVars, scriptVars>>

\* the ffmpeg pass of _create_video_from_frames: on success the temporary
\* file replaces output_path, on any exception (no ffmpeg, a non-zero
\* exit) only a warning is logged; generate_video returns output_path
Optimise ==
  /\ vpc = "optimise"
  /\ ffmpegRun' = TRUE
  /\ \E outcome \in {"ok", "tool_missing", "nonzero_exit"} :
       /\ passOutcome' = outcome
       /\ rawFile' = file_after_pass(outcome, rawFile)
  /\ video_result' = "output_path"
  /\ vpc' = "returned"
  /\ UNCHANGED <<fps, calls, frames, raised, fontEnv, font_path, narrated,
                 pipeVars, intVars, fsVars, scriptVars>>

\* generate_audio, which the orchestrator calls after a video was made,
\* picks the text to speak
Narrate ==
  /\ vpc = "returned"
  /\ video_result = "output_path"
  /\ narrated' = narration_text(record)
  /\ vpc' = "narrated"
  /\ UNCHANGED <<fps, calls, frames, rawFile, ffmpegRun, raised, video_result,
                 passOutcome, fontEnv, font_path,
                 pipeVars, intVars, fsVars, scriptVars>>

MaxFps == 2
SmallMaxWords == 10

\* a video generator is constructed and generate_video is called with a
\* record of generate_script: records of 2..MaxRunWords+2 words on the
\* standard machine, and one record on every machine
InitVideo ==
  /\ PipelineIdle
  /\ intro = <<"a">>
  /\ conclusion = <<"b">>
  /\ max_duration = DefaultMaxDuration
  /\ \/ /\ fontEnv = StandardFonts
        /\ body \in {Run(k) : k \in 0..MaxRunWords}
        /\ max_words \in {DefaultMaxWords, SmallMaxWords}
        /\ article_url \in {<<>>, <<"u">>}
        /\ fps \in 0..MaxFps
     \/ /\ fontEnv \in FontEnvironments
        /\ body = Run(1)
        /\ max_words = DefaultMaxWords
        /\ article_url = <<"u">>
        /\ fps = 1
  /\ full_script = adjust_script_length(Assemble(intro, body, conclusion), max_words)
  /\ record = script_record(intro, body, conclusion, full_script, max_duration)
  /\ script_arg = <<>> /\ readjusted = <<>> /\ article = NoArticle
  /\ previous = NoRecord
  /\ spc = "recorded"
  /\ calls = <<>> /\ frames = <<>> /\ vpc = "init"
  /\ rawFile = "absent" /\ ffmpegRun = FALSE /\ raised = "none"
  /\ video_result = "unset"
  /\ passOutcome = "not_run" /\ font_path = "unset" /\ narrated = <<>>

NextVideo ==
  \/ ResolveFont
  \/ RenderIntro
  \/ RenderBody
  \/ RenderConclusion
  \/ WriteRaw
  \/ Optimise
  \/ Narrate

SpecVideo == InitVideo /\ [][NextVideo]_vars

----------------------------------------------------------------------------
Init ==
  /\ env \in Environments
  /\ IF env.caller = "pipeline"
       THEN videoFile = FALSE /\ audioFile = FALSE /\ opc = "script"
       ELSE videoFile \in BOOLEAN /\ audioFile \in BOOLEAN /\ opc = "direct"
  /\ script_data = "unset" /\ video_path = "unset" /\ audio_path = "unset"
  /\ final_path = "unset" /\ started = <<>>
  /\ tier = "IDLE" /\ ffmpeg_available = "unset" /\ visited = <<>>
  /\ muxFailed = FALSE /\ result = "unset"
  /\ outFile = env.prior.file
  /\ dirState = env.prior.dir
  /\ dirEntries = env.prior.entries
  /\ ScriptIdle
  /\ VideoIdle

Next ==
  \/ ScriptStage
  \/ VideoStage
  \/ AudioStage
  \/ IntegrationStage
  \/ IntegrationReturn
  \/ DirectCall
  \/ CheckFfmpeg
  \/ ExternalMux
  \/ LeaveMux
  \/ ClipReencode
  \/ ManualBundle

Spec == Init /\ [][Next]_vars

----------------------------------------------------------------------------
(* Properties of the integrators and the orchestrator, under Spec.         *)

Range(seq) == {seq[i] : i \in 1..Len(seq)}
NoDuplicates(seq) == \A i, j \in 1..Len(seq) : i # j => seq[i] # seq[j]
IsPrefix(s, t) == Len(s) <= Len(t) /\ \A i \in 1..Len(s) : s[i] = t[i]

\* the presence check failed and, where the class has a clip tier, the
\* clip library is missing too
NoMuxToolFound ==
  /\ ffmpeg_available = "False"
  /\ env.cls = "VoiceVideo" => ~env.moviepy

\* the entries the manual bundle writes
FourEntries == {<<"video.mp4", "video">>, <<"audio.mp3", "audio">>,
                <<"combine.sh", "script">>, <<"README.txt", "readme">>}

\* both input files exist and no regular file occupies the bundle path
UsableInputs == videoFile /\ audioFile /\ env.prior.dir # "file"

\* C1: given usable inputs, integrate never ends with a None result,
\* whatever tools are installed and whatever the attempted tier's outcome.
C1_NeverNone == (tier = "DONE" /\ UsableInputs) => result # "None"

\* C2: given usable inputs, when no muxing tool was found integrate ends
\* with a directory result: it never fails because a muxing tool is missing.
C2_BundleAlwaysSucceeds ==
  (tier = "DONE" /\ NoMuxToolFound /\ UsableInputs) =>
    (result = "output_dir" /\ dirState = "dir")

\* C3: the tier only moves forward along the chain, no tier is entered
\* twice in a call, and a later tier is entered only when the current
\* tier's tool is unavailable or has failed.
C3_StrictlyForward ==
  [][ /\ TierRank(tier') >= TierRank(tier)
      /\ NoDuplicates(visited')
      /\ (tier' # tier /\ tier # "IDLE" /\ tier' # "DONE") =>
            \/ tier = "TRY_EXTERNAL_MUX" /\ (ffmpeg_available = "False" \/ muxFailed')
            \/ tier = "TRY_CLIP_REENCODE" /\ ~env.moviepy ]_vars

\* a call ended after leaving a tier for a later one
C3_Witness == tier = "DONE" /\ Len(visited) = 2

\* C4: the clip re-encode tier is entered only when the presence check of
\* the muxer failed; after a failed mux command it is never attempted.
C4_ClipOnlyWithoutMuxer ==
  /\ "TRY_CLIP_REENCODE" \in Range(visited) => ffmpeg_available = "False"
  /\ muxFailed => "TRY_CLIP_REENCODE" \notin Range(visited)

\* the mux command failed in VoiceVideoIntegrator while moviepy was installed
C4_Witness ==
  tier = "DONE" /\ muxFailed /\ env.cls = "VoiceVideo" /\ env.moviepy

C6_ExactlyFourEntries ==
  (tier = "DONE" /\ result = "output_dir") => dirEntries = FourEntries

\* C7: a result of the mux or the clip tier is the path of a merged file,
\* a result of the manual bundle is the path of a directory.
C7_ShapeByTier ==
  (tier = "DONE" /\ result # "None") =>
    LET producer == visited[Len(visited)]
    IN  /\ producer \in {"TRY_EXTERNAL_MUX", "TRY_CLIP_REENCODE"} =>
              (result = "output_path" /\ outFile = "merged")
        /\ producer = "MANUAL_BUNDLE" => (result = "output_dir" /\ dirState = "dir")

\* the manual bundle returned a result
C7_Witness ==
  tier = "DONE" /\ result # "None" /\ visited[Len(visited)] = "MANUAL_BUNDLE"

\* C8: the stages start in the order script, video, audio, integration,
\* each only after the one before returned its output; the integrator is
\* called only with both paths; after the first failing stage nothing
\* more starts and the result is None.
C8_SequentialStages ==
  /\ IsPrefix(started, Stages)
  /\ Len(started) >= 2 => script_data = "record"
  /\ Len(started) >= 3 => (video_path = "path" /\ videoFile)
  /\ Len(started) >= 4 => (audio_path = "path" /\ audioFile)
  /\ (env.caller = "pipeline" /\ tier # "IDLE") =>
        (video_path = "path" /\ audio_path = "path")
  /\ script_data = "None" => (Len(started) = 1 /\ final_path = "None")
  /\ video_path = "None" => (Len(started) = 2 /\ final_path = "None")
  /\ audio_path = "None" => (Len(started) = 3 /\ final_path = "None")
  /\ (opc = "done" /\ result = "None") => final_path = "None"

\* the audio stage failed after the script and video stages succeeded
C8_Witness == opc = "done" /\ audio_path = "None" /\ Len(started) = 3

\* C9: when the pipeline ends in failure, this run has left nothing at
\* the final location: no merged or partial file, no bundle directory.
C9_NothingLeftOnFailure ==
  (opc = "done" /\ final_path = "None") =>
    /\ outFile = env.prior.file
    /\ dirState = env.prior.dir
    /\ dirEntries = env.prior.entries

----------------------------------------------------------------------------
(* Properties of the script generator, under SpecScript.                   *)

WordCount(s) == Len(Split(s))

\* C10: a script of at most max_words words comes back from the budgeter
\* unchanged, character for character, blank-line separators included.
C10_WithinBudgetUnchanged ==
  (spc = "adjusted" /\ WordCount(Assemble(intro, body, conclusion)) <= max_words) =>
    full_script = intro \o BlankLine \o body \o BlankLine \o conclusion

\* a script within budget whose body holds a line break and two spaces in
\* a row was processed
C10_Witness ==
  /\ spc = "adjusted"
  /\ WordCount(Assemble(intro, body, conclusion)) <= max_words
  /\ \E i \in 1..(Len(body) - 1) : body[i] = " " /\ body[i + 1] = " "
  /\ \E i \in 1..Len(body) : body[i] = "\n"

\* the script as generate_script joined it, before the budgeter
Joined == Assemble(intro, body, conclusion)

\* the joined script has more words than max_words
OverBudget == WordCount(Joined) > max_words

\* B: what max_words leaves for the body after the intro and the conclusion
BodyBudget == max_words - WordCount(intro) - WordCount(conclusion)

StartsWith(s, pre) == Len(pre) <= Len(s) /\ SubSeq(s, 1, Len(pre)) = pre
EndsWith(s, suf) ==
  Len(suf) <= Len(s) /\ SubSeq(s, Len(s) - Len(suf) + 1, Len(s)) = suf

\* the first max_words words of the whole joined text, single-spaced
FlatTruncation == Join(<<" ">>, Take(Split(Joined), max_words))

\* C11 as stated: every over-budget three-part script comes back starting
\* with the exact intro, ending with the exact conclusion, and with at
\* most max_words words.
C11_Original ==
  (spc = "adjusted" /\ OverBudget) =>
    /\ StartsWith(full_script, intro)
    /\ EndsWith(full_script, conclusion)
    /\ WordCount(full_script) <= max_words

\* C11 amended: every over-budget script comes back with at most
\* max_words words; it starts with the exact intro and ends with the exact
\* conclusion when the body budget is positive.
C11_KeepsIntroAndConclusion ==
  (spc = "adjusted" /\ OverBudget) =>
    /\ WordCount(full_script) <= max_words
    /\ BodyBudget > 0 =>
          /\ StartsWith(full_script, intro \o BlankLine)
          /\ EndsWith(full_script, BlankLine \o conclusion)

\* an over-budget script with a body of several words was truncated under
\* a positive body budget
C11_Witness ==
  spc = "adjusted" /\ OverBudget /\ BodyBudget > 0 /\ WordCount(body) >= 2

\* C12: with a positive body budget B, an over-budget script comes back
\* as the intro's words, the first B words of the body in order, and the
\* conclusion's words: max_words words in all.
C12_BodyIsFirstWords ==
  (spc = "adjusted" /\ OverBudget /\ BodyBudget > 0) =>
    /\ Split(full_script) =
          Split(intro) \o Take(Split(body), BodyBudget) \o Split(conclusion)
    /\ WordCount(full_script) = max_words

\* a body of two different words was cut to its first word
C12_Witness ==
  /\ spc = "adjusted" /\ OverBudget /\ BodyBudget = 1
  /\ Split(body) = << <<"a">>, <<"b">> >>

\* C13 as stated: an over-budget joined text that does not split into
\* exactly three parts comes back as the first max_words words of the
\* whole text.
C13_Original ==
  (spc = "adjusted" /\ OverBudget /\ Len(SplitBlank(Joined)) # 3) =>
    full_script = FlatTruncation

\* C13 amended: an over-budget joined text of four or more parts keeps its
\* first and last part and the first B words of all the parts between
\* them when the body budget B is positive; it comes back as the first
\* max_words words of the whole text only when B <= 0.
C13_MoreThanThreeParts ==
  (spc = "adjusted" /\ OverBudget /\ Len(SplitBlank(Joined)) > 3) =>
    LET parts == SplitBlank(Joined)
    IN  IF BodyBudget > 0
        THEN full_script =
               parts[1] \o BlankLine
                 \o Join(<<" ">>, Take(Split(body), BodyBudget))
                 \o BlankLine \o parts[Len(parts)]
        ELSE full_script = FlatTruncation

\* a body holding a blank line between two words was truncated with a
\* positive body budget
C13_Witness ==
  /\ spc = "adjusted" /\ OverBudget /\ BodyBudget > 0
  /\ body = <<"a", "\n", "\n", "b">>

\* C14: with a body budget <= 0 an over-budget script comes back as the
\* first max_words words of the whole joined text, at most max_words words.
C14_NoBudgetFlatTruncation ==
  (spc = "adjusted" /\ OverBudget /\ BodyBudget <= 0) =>
    /\ full_script = FlatTruncation
    /\ WordCount(full_script) <= max_words

\* the intro and the conclusion together have exactly max_words words
C14_Witness ==
  spc = "adjusted" /\ OverBudget /\ BodyBudget = 0 /\ max_words > 0

----------------------------------------------------------------------------
(* Properties of the script record, under SpecScript and SpecDuration.     *)

\* C15: the record's word_count is the number of whitespace-separated
\* words of the record's full_script, the text after truncation.
C15_WordCountOfFullScript ==
  spc = "recorded" =>
    /\ record.full_script = full_script
    /\ record.word_count = WordCount(record.full_script)

\* a record was built for a script that the budgeter shortened
C15_Witness ==
  spc = "recorded" /\ OverBudget /\ record.word_count < WordCount(Joined)

\* C16: estimated_duration lies in [0, max_duration]; it is
\* floor(word_count / 2.5) when that is at most max_duration, and
\* max_duration otherwise.
C16_DurationBounded ==
  spc = "recorded" =>
    LET d == record.estimated_duration
        w == record.word_count
    IN  /\ 0 <= d /\ d <= max_duration
        /\ IF 2 * w < 5 * (max_duration + 1)
             THEN 5 * d <= 2 * w /\ 2 * w < 5 * (d + 1)
             ELSE d = max_duration

\* a record whose duration was cut to max_duration, with word_count / 2.5
\* not a whole number
C16_Witness ==
  /\ spc = "recorded" /\ record.estimated_duration = max_duration
  /\ 2 * record.word_count > 5 * (max_duration + 1)
  /\ (2 * record.word_count) % 5 # 0

\* C17: the record's full_script is its intro, body and conclusion fields
\* joined by blank lines, truncated or not.
C17_FullScriptIsJoinOfFields ==
  spc = "recorded" =>
    record.full_script = Assemble(record.intro, record.body, record.conclusion)

----------------------------------------------------------------------------
(* Properties of the video generator, under SpecVideo.                     *)

\* the calls of _create_text_frames made so far for the body segment
BodyCalls == {i \in 1..Len(calls) : calls[i].segment = "body"}

\* C18: the duration handed to the frame renderer for the body segment is
\* greater than zero for every script record, also when its
\* estimated_duration is below 10.
C18_BodyDurationPositive ==
  \A i \in BodyCalls : calls[i].duration > 0

\* C19: the frame renderer returns exactly duration * fps images for a
\* duration >= 0, and the empty list when duration * fps <= 0; no call
\* raises, so generate_video goes on to the next segment.
C19_FrameCount ==
  /\ \A i \in 1..Len(calls) :
        /\ calls[i].duration >= 0 => calls[i].returned = calls[i].duration * fps
        /\ calls[i].duration * fps <= 0 => calls[i].returned = 0
  /\ vpc = "body" => Len(calls) = 1
  /\ vpc = "conclusion" => Len(calls) = 2
  /\ vpc = "write" => Len(calls) = 3 /\ raised = "none" /\ video_result = "unset"

\* at two images per second the intro gave ten images, a body of zero
\* seconds gave none, and the conclusion was rendered after it
C19_Witness ==
  /\ vpc = "write" /\ fps = 2
  /\ calls[1].returned = 10
  /\ calls[2].duration = 0 /\ calls[2].returned = 0
  /\ calls[3].returned = 10

\* C20: encoding an empty list of images raises the empty-input error
\* with nothing written at output_path and the ffmpeg pass not started;
\* generate_video returns None.
C20_EmptyFramesRejected ==
  /\ frames = <<>> => rawFile = "absent" /\ ~ffmpegRun
  /\ (vpc = "returned" /\ frames = <<>>) =>
       raised = "ValueError" /\ video_result = "None"

\* all three segments were rendered to no image and the encoder was called
C20_Witness ==
  /\ vpc = "returned" /\ Len(calls) = 3 /\ frames = <<>>
  /\ raised = "ValueError"

\* C21: encoding a non-empty list of images ends with a video file at
\* output_path and no exception: the compressed file when the ffmpeg pass
\* succeeded, and the raw file written before the pass when ffmpeg was
\* missing or exited with an error.
C21_RawFileSurvivesFailedPass ==
  (vpc \in {"returned", "narrated"} /\ frames # <<>>) =>
    /\ raised = "none" /\ video_result = "output_path"
    /\ passOutcome # "not_run"
    /\ rawFile = (IF passOutcome = "ok" THEN "compressed" ELSE "raw")

\* the ffmpeg command exited with an error after the raw file was written
C21_Witness ==
  /\ vpc = "returned" /\ frames # <<>> /\ passOutcome = "nonzero_exit"
  /\ rawFile = "raw"

\* the calls of _create_text_frames made with include_url set
UrlCalls == {i \in 1..Len(calls) : calls[i].segment = "conclusion"}

\* C26 as stated: every call with include_url set draws the caption,
\* whatever the url, the empty one included.
C26_Original ==
  \A i \in UrlCalls : calls[i].caption

\* C26 amended: the caption is drawn exactly by the calls with include_url
\* set and a non-empty url; with an empty url no caption is drawn.
C26_CaptionNeedsUrl ==
  \A i \in 1..Len(calls) :
    calls[i].caption <=> (i \in UrlCalls /\ article_url # <<>>)

\* the conclusion of a record with an empty article_url was rendered
C26_Witness ==
  /\ article_url = <<>> /\ UrlCalls # {}
  /\ \A i \in UrlCalls : ~calls[i].caption

\* the font the stated order of resolution ends with
ClaimedFont(e) ==
  IF e.configured = "present" THEN "configured"
  ELSE IF e.conventional THEN "conventional"
  ELSE IF \E i \in 1..3 : e.dirs[i] \in {"top", "nested"} THEN "scanned"
  ELSE "builtin"

\* C27: every segment is rendered with the first font that exists among
\* the configured path, the DejaVu path, a .ttf/.otf file found in the
\* font directories and the built-in font, and rendering never aborts.
C27_FontOrder ==
  /\ \A i \in 1..Len(calls) : calls[i].font = ClaimedFont(fontEnv)
  /\ vpc = "write" => Len(calls) = 3

\* C28: with fps >= 1 the encoder is handed
\* 10*fps + max(estimated_duration - 10, 0)*fps images, which is
\* estimated_duration*fps from 10 seconds on and 10*fps below, never none;
\* the empty-input error is not raised.
C28_TotalFrames ==
  (fps >= 1 /\ vpc \in {"write", "optimise", "returned", "narrated"}) =>
    LET d == record.estimated_duration
    IN  /\ Len(frames) = 10 * fps + (IF d > 10 THEN d - 10 ELSE 0) * fps
        /\ d >= 10 => Len(frames) = d * fps
        /\ d < 10 => Len(frames) = 10 * fps
        /\ frames # <<>>
        /\ raised = "none"
        /\ vpc \in {"returned", "narrated"} => video_result = "output_path"

\* a record of less than 10 seconds was encoded at two images per second
C28_Witness ==
  /\ vpc = "returned" /\ fps = 2 /\ record.estimated_duration < 10
  /\ Len(frames) = 20 /\ video_result = "output_path"

\* C29: the words of the three texts rendered as video segments, in order,
\* are the words of the text handed to speech synthesis, also for a
\* truncated script.
C29_CaptionedEqualsNarrated ==
  vpc = "narrated" =>
    Split(calls[1].text) \o Split(calls[2].text) \o Split(calls[3].text)
      = Split(narrated)

----------------------------------------------------------------------------
(* Properties of the budgeter on its own, under SpecBudgeter.              *)

\* C30: for every text and every max_words >= 0, _adjust_script_length
\* applied to its own output returns that output unchanged.
C30_BudgeterIdempotent ==
  spc = "readjusted" => readjusted = full_script

\* a three-part text was cut in its body, and the budgeter was applied
\* again to the result
C30_Witness ==
  /\ spc = "readjusted"
  /\ Len(SplitBlank(script_arg)) = 3
  /\ WordCount(script_arg) > max_words
  /\ full_script # script_arg
  /\ Len(SplitBlank(full_script)) = 3
  /\ WordCount(SplitBlank(full_script)[2]) > 0

----------------------------------------------------------------------------
(* Properties of the body selection, under SpecBody.                       *)

\* a heading H1-H4 with text, or a paragraph of 20 to 200 characters
Qualifying(section) ==
  \/ Upper(section.type) \in {"H1", "H2", "H3", "H4"} /\ Len(section.text) > 0
  \/ Upper(section.type) = "P" /\ Len(section.text) \in 20..200

NonEmptyParagraph(section) == Upper(section.type) = "P" /\ Len(section.text) > 0

\* the blocks the stated selection takes from the article's content
SelectedBlocks ==
  LET content == article.content.value
  IN  IF SelectSeq(content, Qualifying) # <<>>
        THEN Take(SelectSeq(content, Qualifying), 3)
        ELSE Take(SelectSeq(content, NonEmptyParagraph), 2)

\* what a point is stated to contribute to the body
Contribution(point) ==
  IF Len(point) <= 100 THEN point
  ELSE [i \in 1..100 |-> IF i <= 97 THEN point[i] ELSE "."]

NoSummary == article.summary.state = "missing"

\* C23: without a summary the body is the prefix followed by at most 3 key
\* points, the non-empty headings H1-H4 and the paragraphs of 20 to 200
\* characters in reading order; when there is none, by the first 2
\* non-empty paragraphs; when there is none either, the body is the fixed
\* generic sentence.
C23_BodySelection ==
  (spc = "body_made" /\ NoSummary) =>
    IF SelectedBlocks = <<>> THEN body = GenericBody
    ELSE body = BodyPrefix \o
           Join(<<" ">>, [i \in 1..Len(SelectedBlocks) |->
                            Contribution(SelectedBlocks[i].text)])

\* four blocks qualified as key points and the body was made
C23_Witness ==
  /\ spc = "body_made" /\ NoSummary
  /\ Len(SelectSeq(article.content.value, Qualifying)) = 4

\* C24: every selected point of more than 100 characters is in the body as
\* its first 97 characters and "...", every other point unchanged, so each
\* takes at most 100 characters; the body is complete before the script
\* is joined and budgeted.
C24_PointsClipped ==
  (spc = "body_made" /\ NoSummary /\ SelectedBlocks # <<>>) =>
    LET w == Split(body)
        points == [i \in 1..Len(SelectedBlocks) |-> SelectedBlocks[i].text]
    IN  /\ Len(w) = Len(Split(BodyPrefix)) + Len(points)
        /\ \A i \in 1..Len(points) :
             LET shown == w[Len(Split(BodyPrefix)) + i]
             IN  /\ Len(shown) <= 100
                 /\ Len(points[i]) <= 100 => shown = points[i]
                 /\ Len(points[i]) > 100 =>
                      /\ SubSeq(shown, 1, 97) = SubSeq(points[i], 1, 97)
                      /\ SubSeq(shown, 98, 100) = <<".", ".", ".">>
        /\ full_script = <<>>

\* a body was made of a point of 101, one of 5 and one of 200 characters
C24_Witness ==
  /\ spc = "body_made" /\ NoSummary
  /\ [i \in 1..Len(SelectedBlocks) |-> Len(SelectedBlocks[i].text)] = <<101, 5, 200>>

----------------------------------------------------------------------------
(* Properties of generate_script on an article, under SpecArticle and      *)
(* SpecRepeat.                                                             *)

\* C22: two runs of generate_script on the same article return the same
\* record: the same intro, conclusion, full_script, word_count and
\* estimated_duration.
C22_SameRecordTwice ==
  (spc = "recorded" /\ previous # NoRecord) => record = previous

\* C25: whichever of title, author, summary, content and url are absent or
\* null, generate_script returns a record; it never returns None.
C25_AlwaysARecord ==
  spc # "article" => (spc = "recorded" /\ record # NoRecord)

====
